---- MODULE Spec2Model ----
(***************************************************************************)
(* A model of the content API: the user store and the content store, the   *)
(* tokens issued by login, and the request handlers of authController and  *)
(* postController.  A handler is cut at its awaits: every store call is    *)
(* one atomic step, and the synchronous code between two awaits belongs to *)
(* the step of the store call that precedes it.  Several requests may be   *)
(* in flight at once (one per process of Procs).                           *)
(***************************************************************************)
EXTENDS Integers, Sequences, FiniteSets, TLC

\* ----------------------------------------------------------------- bounds
\* Spec: the whole program, one request at a time
SeqUsers == 3        \* user ids ever allocated
SeqTokens == 2       \* distinct tokens issued by login
SeqPosts == 1        \* post ids ever allocated
SeqComments == 1     \* comment ids ever allocated
\* AuthSpec: the auth routes, two requests in flight
MaxUsers == 2
MaxTokens == 2
\* StorySpec: registrations, logins, role updates and posts, one at a time
StoryUsers == 3
StoryTokens == 3
StoryPosts == 1
\* CommentSpec: comments on one post, two requests in flight
MaxComments == 3
\* TurnSpec: the most requests in flight of a run
MaxInFlight == 2

\* ------------------------------------------------------- program constants
MaxAdmins == 5

Procs == {1, 2}
Roles == {"admin", "author", "reader"}
RoleInputs == Roles \cup {"editor"}
Texts == {"a", "b"}
TextInputs == Texts \cup {""}
NoToken == [id |-> 0, role |-> "none"]

\* cap holds the bounds of the runs explored; nothing changes it.
VARIABLES users, nextId, tokens, posts, nextPost, nextComment, loc, cap

vars == <<users, nextId, tokens, posts, nextPost, nextComment, loc, cap>>
userVars == <<users, nextId, cap>>
postVars == <<posts, nextPost, nextComment>>

\* --------------------------------------------------------------- the stores
\* User.countDocuments(filter)
AdminCount == Cardinality({i \in DOMAIN users : users[i].role = "admin"})
UserCount == Cardinality(DOMAIN users)
\* User.findOne({ email }): some stored user with that email, if any
EmailTaken(email) == \E i \in DOMAIN users : users[i].email = email
UserByEmail(email) == CHOOSE i \in DOMAIN users : users[i].email = email

Idle == [pc |-> "idle"]
Free(p) == loc[p].pc = "idle"

\* ------------------------------------------------------------- middleware
\* (mutant) the role is read from the store, not from the token
verifyTokenFromStore(header) ==
    [id |-> header.id,
     role |-> IF header.id \in DOMAIN users THEN users[header.id].role ELSE "none"]

\* authMiddleware: the request's user is what the token carries
verifyToken(header) == [id |-> header.id, role |-> header.role]

\* roleMiddleware: the route lets the listed roles through
authorizeRoles(allowed, user) == user.role \in allowed

RouteRoles(op) ==
    CASE op \in {"getAllUsers", "getUserById", "deleteUser", "getUserStats",
                 "updateUserRole"} -> {"admin"}
      [] op \in {"createPost", "updatePost", "deletePost"} -> {"admin", "author"}
      [] op \in {"addComment", "deleteComment"} -> {"admin", "author", "reader"}

\* The status the middleware chain answers with, 0 when the handler runs.
Middleware(op, header) ==
    IF header = NoToken THEN 401
    ELSE IF ~authorizeRoles(RouteRoles(op), verifyToken(header)) THEN 403
    ELSE 0

\* The response of a request: the process holds the request with its status
\* until the response is sent (Return).
Respond(p, r, status) ==
    loc' = [loc EXCEPT ![p] = [pc |-> "done", op |-> r.op, header |-> r.header,
                               user |-> r.user, a |-> r.a, status |-> status]]

Return(p) ==
    /\ loc[p].pc = "done"
    /\ loc' = [loc EXCEPT ![p] = Idle]
    /\ UNCHANGED <<userVars, tokens, postVars>>

Request(op, header, a) ==
    [pc |-> "start", op |-> op, header |-> header,
     user |-> IF header = NoToken THEN NoToken ELSE verifyToken(header), a |-> a]

\* A request the middleware turns away before the handler runs.
TurnedAway(p, r) ==
    /\ Middleware(r.op, r.header) # 0
    /\ Respond(p, r, Middleware(r.op, r.header))
    /\ UNCHANGED <<userVars, tokens, postVars>>

\* ------------------------------------------------------------ registerUser
\* (mutant) nobody is created an admin
RoleForCountReader(userCount) == "reader"

RoleForCount(userCount) == IF userCount = 0 THEN "admin" ELSE "reader"

Registering == Cardinality({q \in Procs : loc[q].pc \in {"reg_count", "reg_create"}})

\* User.findOne({ email }) and the 400 of an email in use
RegisterFind(p, email) ==
    /\ Free(p)
    /\ nextId + Registering <= cap.users
    /\ LET r == Request("register", NoToken, [email |-> email])
       IN IF EmailTaken(email)
          THEN Respond(p, r, 400)
          ELSE loc' = [loc EXCEPT ![p] = [r EXCEPT !.pc = "reg_count"]]
    /\ UNCHANGED <<userVars, tokens, postVars>>

\* User.countDocuments() and the choice of the role
RegisterCount(p) ==
    /\ loc[p].pc = "reg_count"
    /\ loc' = [loc EXCEPT ![p] = [loc[p] EXCEPT !.pc = "reg_create"]
                                   @@ [role |-> RoleForCount(UserCount)]]
    /\ UNCHANGED <<userVars, tokens, postVars>>

\* models/User: the store keeps the email of a user unique, and refuses the
\* insert of a user whose email another user has
DuplicateKey(email) == EmailTaken(email)

\* (mutant) the role is chosen from the store at the moment of creation
RegisterCreateRecounts(p) ==
    /\ loc[p].pc = "reg_create"
    /\ IF DuplicateKey(loc[p].a.email)
       THEN /\ \E status \in {0, 500} : Respond(p, loc[p], status)
            /\ UNCHANGED <<users, nextId>>
       ELSE /\ users' = (nextId :> [role |-> RoleForCount(UserCount),
                                     email |-> loc[p].a.email]) @@ users
            /\ nextId' = nextId + 1
            /\ Respond(p, [loc[p] EXCEPT !.a = [email |-> loc[p].a.email, id |-> nextId,
                                                role |-> RoleForCount(UserCount)]], 201)
    /\ UNCHANGED <<cap, tokens, postVars>>

\* User.create and the 201.  The handler catches nothing: when the store
\* refuses the insert the rejection leaves the handler, and the request gets
\* the framework's 500 or no response at all (status 0).
RegisterCreate(p) ==
    /\ loc[p].pc = "reg_create"
    /\ IF DuplicateKey(loc[p].a.email)
       THEN /\ \E status \in {0, 500} : Respond(p, loc[p], status)
            /\ UNCHANGED <<users, nextId>>
       ELSE /\ users' = (nextId :> [role |-> loc[p].role,
                                     email |-> loc[p].a.email]) @@ users
            /\ nextId' = nextId + 1
            /\ Respond(p, [loc[p] EXCEPT !.a = [email |-> loc[p].a.email, id |-> nextId,
                                                role |-> loc[p].role]], 201)
    /\ UNCHANGED <<cap, tokens, postVars>>

\* --------------------------------------------------------------- loginUser
generateToken(id, role) == [id |-> id, role |-> role]

\* User.findOne({ email }), bcrypt.compare, and the token or the 401
LoginUser(p, email, passwordOk) ==
    /\ Free(p)
    /\ LET r == Request("login", NoToken, [email |-> email])
       IN IF EmailTaken(email) /\ passwordOk
          THEN /\ tokens' = tokens \cup {generateToken(UserByEmail(email),
                                                       users[UserByEmail(email)].role)}
               /\ Cardinality(tokens') <= cap.tokens
               /\ Respond(p, r, 200)
          ELSE /\ Respond(p, r, 401)
               /\ UNCHANGED tokens
    /\ UNCHANGED <<userVars, postVars>>

\* ---------------------------------------------------------- updateUserRole
\* (mutant) the token's role is trusted
StillAdminUnchecked(actorId) == TRUE

\* (mutant) the self-modification check never fires
IsSelfNever(currentUserId, targetUserId) == FALSE

StillAdmin(actorId) == actorId \in DOMAIN users /\ users[actorId].role = "admin"

IsSelf(currentUserId, targetUserId) == currentUserId = targetUserId

\* (mutant) every requested role is taken
ValidRoleAny(role) == TRUE

ValidRole(role) == role \in {"admin", "author", "reader"}

NeedsLastAdminCheck(docRole, role) == docRole = "admin" /\ role # "admin"

NeedsCeilingCheck(docRole, role) == role = "admin" /\ docRole # "admin"

\* (mutant) two admins are required
LastAdminDeniedAtTwo(adminCount) == adminCount <= 2

LastAdminDenied(adminCount) == adminCount <= 1

CeilingDenied(adminCount) == adminCount >= MaxAdmins

\* the middleware, then User.findById(id) and the 404
RoleFindTarget(p, header, id, role) ==
    /\ Free(p)
    /\ LET r == Request("updateUserRole", header, [id |-> id, role |-> role])
       IN \/ TurnedAway(p, r)
          \/ /\ Middleware(r.op, header) = 0
             /\ IF id \notin DOMAIN users
                THEN Respond(p, r, 404)
                ELSE loc' = [loc EXCEPT ![p] = [r EXCEPT !.pc = "role_actor"]
                                @@ [doc |-> [id |-> id, role |-> users[id].role]]]
             /\ UNCHANGED <<userVars, tokens, postVars>>

\* The messages of the refusals
NoLongerAdmin == "You no longer have admin privileges"
OwnRole == "Cannot modify your own role for security reasons"
InvalidRole == "Invalid role"
LastAdmin == "Cannot change role: System requires at least one admin"
CeilingReached == "Maximum number of admins (5) already reached"

\* res.status(...).json({ message })
Refused(r, message) == [r EXCEPT !.a = r.a @@ [message |-> message]]

\* (mutant) the self check comes before the re-verification of the actor
RoleCheckActorSelfFirst(p) ==
    /\ loc[p].pc = "role_actor"
    /\ LET r == loc[p]
       IN IF IsSelf(r.user.id, r.doc.id) THEN Respond(p, Refused(r, OwnRole), 403)
          ELSE IF ~StillAdmin(r.user.id) THEN Respond(p, Refused(r, NoLongerAdmin), 403)
          ELSE IF ~ValidRole(r.a.role) THEN Respond(p, Refused(r, InvalidRole), 400)
          ELSE loc' = [loc EXCEPT ![p].pc =
                     IF NeedsLastAdminCheck(r.doc.role, r.a.role) THEN "role_last"
                     ELSE IF NeedsCeilingCheck(r.doc.role, r.a.role) THEN "role_ceiling"
                     ELSE "role_save"]
    /\ UNCHANGED <<userVars, tokens, postVars>>

\* User.findById(req.user.id), then the checks that need no further store call
RoleCheckActor(p) ==
    /\ loc[p].pc = "role_actor"
    /\ LET r == loc[p]
       IN IF ~StillAdmin(r.user.id) THEN Respond(p, Refused(r, NoLongerAdmin), 403)
          ELSE IF IsSelf(r.user.id, r.doc.id) THEN Respond(p, Refused(r, OwnRole), 403)
          ELSE IF ~ValidRole(r.a.role) THEN Respond(p, Refused(r, InvalidRole), 400)
          ELSE loc' = [loc EXCEPT ![p].pc =
                     IF NeedsLastAdminCheck(r.doc.role, r.a.role) THEN "role_last"
                     ELSE IF NeedsCeilingCheck(r.doc.role, r.a.role) THEN "role_ceiling"
                     ELSE "role_save"]
    /\ UNCHANGED <<userVars, tokens, postVars>>

\* User.countDocuments({ role: 'admin' }) of the last-admin protection
RoleCountLast(p) ==
    /\ loc[p].pc = "role_last"
    /\ IF LastAdminDenied(AdminCount)
       THEN Respond(p, Refused(loc[p], LastAdmin), 403)
       ELSE loc' = [loc EXCEPT ![p].pc = "role_save"]
    /\ UNCHANGED <<userVars, tokens, postVars>>

\* User.countDocuments({ role: 'admin' }) of the admin ceiling
RoleCountCeiling(p) ==
    /\ loc[p].pc = "role_ceiling"
    /\ IF CeilingDenied(AdminCount)
       THEN Respond(p, Refused(loc[p], CeilingReached), 403)
       ELSE loc' = [loc EXCEPT ![p].pc = "role_save"]
    /\ UNCHANGED <<userVars, tokens, postVars>>

\* userToUpdate.save(): the document writes its role when the assignment
\* changed it; a document deleted in the meantime has nothing to write to,
\* and save() then fails or passes in silence, depending on the driver.
RoleSave(p) ==
    /\ loc[p].pc = "role_save"
    /\ LET r == loc[p]
       IN IF r.a.role = r.doc.role
          THEN /\ Respond(p, r, 200)
               /\ UNCHANGED users
          ELSE IF r.doc.id \in DOMAIN users
          THEN /\ users' = [users EXCEPT ![r.doc.id].role = r.a.role]
               /\ Respond(p, r, 200)
          ELSE /\ \E status \in {200, 500} : Respond(p, r, status)
               /\ UNCHANGED users
    /\ UNCHANGED <<nextId, cap, tokens, postVars>>

\* ------------------------------------- deleteUser and the admin-only reads
\* the middleware, then User.findByIdAndDelete(id)
DeleteUser(p, header, id) ==
    /\ Free(p)
    /\ LET r == Request("deleteUser", header, [id |-> id])
       IN \/ TurnedAway(p, r)
          \/ /\ Middleware(r.op, header) = 0
             /\ IF id \in DOMAIN users
                THEN /\ users' = [i \in DOMAIN users \ {id} |-> users[i]]
                     /\ Respond(p, r, 200)
                ELSE /\ Respond(p, r, 404)
                     /\ UNCHANGED users
             /\ UNCHANGED <<nextId, cap, tokens, postVars>>

\* getAllUsers and getUserStats: the middleware, then a read of the store
AdminRead(p, header, op) ==
    /\ Free(p)
    /\ LET r == Request(op, header, [id |-> 0])
       IN \/ TurnedAway(p, r)
          \/ /\ Middleware(r.op, header) = 0
             /\ Respond(p, r, 200)
             /\ UNCHANGED <<userVars, tokens, postVars>>

\* ------------------------------------------------------------- createPost
\* the middleware, then Post.create with the token's id as the author
CreatePost(p, header, title, content) ==
    /\ Free(p)
    /\ nextPost <= cap.posts
    /\ LET r == Request("createPost", header, [id |-> nextPost])
       IN \/ TurnedAway(p, r)
          \/ /\ Middleware(r.op, header) = 0
             /\ posts' = (nextPost :> [author |-> r.user.id, title |-> title,
                                       content |-> content, comments |-> <<>>]) @@ posts
             /\ nextPost' = nextPost + 1
             /\ Respond(p, r, 201)
             /\ UNCHANGED <<userVars, tokens, nextComment>>

\* ------------------------------------------------- updatePost, deletePost
\* (mutant) || for &&
AccessDeniedEither(postAuthor, user) == postAuthor # user.id \/ user.role # "admin"

\* post.author.toString() !== req.user.id && req.user.role !== 'admin'
AccessDenied(postAuthor, user) == postAuthor # user.id /\ user.role # "admin"

\* title || post.title
OrElse(given, kept) == IF given = "" THEN kept ELSE given

\* the middleware, then Post.findById(id), the 404 and the 403
UpdateFind(p, header, id, title, content) ==
    /\ Free(p)
    /\ LET r == Request("updatePost", header,
                        [id |-> id, title |-> title, content |-> content])
       IN \/ TurnedAway(p, r)
          \/ /\ Middleware(r.op, header) = 0
             /\ IF id \notin DOMAIN posts THEN Respond(p, r, 404)
                ELSE IF AccessDenied(posts[id].author, r.user) THEN Respond(p, r, 403)
                ELSE loc' = [loc EXCEPT ![p] = [r EXCEPT !.pc = "post_save"]
                                @@ [doc |-> [title |-> posts[id].title,
                                             content |-> posts[id].content]]]
             /\ UNCHANGED <<userVars, tokens, postVars>>

\* (mutant) the update also signs the post with the actor's id
UpdateSaveSigns(p) ==
    /\ loc[p].pc = "post_save"
    /\ LET r == loc[p]
       IN /\ r.a.id \in DOMAIN posts
          /\ posts' = [posts EXCEPT ![r.a.id].title = OrElse(r.a.title, r.doc.title),
                                    ![r.a.id].content = OrElse(r.a.content, r.doc.content),
                                    ![r.a.id].author = r.user.id]
          /\ Respond(p, r, 200)
    /\ UNCHANGED <<userVars, tokens, nextPost, nextComment>>

\* post.save(): the paths the assignments changed are written
UpdateSave(p) ==
    /\ loc[p].pc = "post_save"
    /\ LET r == loc[p]
           title == OrElse(r.a.title, r.doc.title)
           content == OrElse(r.a.content, r.doc.content)
       IN IF title = r.doc.title /\ content = r.doc.content
          THEN /\ Respond(p, r, 200)
               /\ UNCHANGED posts
          ELSE IF r.a.id \in DOMAIN posts
          THEN /\ posts' = [posts EXCEPT ![r.a.id].title =
                                IF title = r.doc.title THEN @ ELSE title,
                                         ![r.a.id].content =
                                IF content = r.doc.content THEN @ ELSE content]
               /\ Respond(p, r, 200)
          ELSE /\ \E status \in {200, 500} : Respond(p, r, status)
               /\ UNCHANGED posts
    /\ UNCHANGED <<userVars, tokens, nextPost, nextComment>>

\* the middleware, then Post.findById(id), the 404 and the 403
DeleteFind(p, header, id) ==
    /\ Free(p)
    /\ LET r == Request("deletePost", header, [id |-> id])
       IN \/ TurnedAway(p, r)
          \/ /\ Middleware(r.op, header) = 0
             /\ IF id \notin DOMAIN posts THEN Respond(p, r, 404)
                ELSE IF AccessDenied(posts[id].author, r.user) THEN Respond(p, r, 403)
                ELSE loc' = [loc EXCEPT ![p] = [r EXCEPT !.pc = "post_delete"]]
             /\ UNCHANGED <<userVars, tokens, postVars>>

\* (mutant) the test of the deleted post is inverted: deleted, and answered 404
DeleteDoAnswers404(p) ==
    /\ loc[p].pc = "post_delete"
    /\ posts' = [i \in DOMAIN posts \ {loc[p].a.id} |-> posts[i]]
    /\ Respond(p, loc[p], 404)
    /\ UNCHANGED <<userVars, tokens, nextPost, nextComment>>

\* Post.findByIdAndDelete(id)
DeleteDo(p) ==
    /\ loc[p].pc = "post_delete"
    /\ IF loc[p].a.id \in DOMAIN posts
       THEN /\ posts' = [i \in DOMAIN posts \ {loc[p].a.id} |-> posts[i]]
            /\ Respond(p, loc[p], 200)
       ELSE /\ Respond(p, loc[p], 404)
            /\ UNCHANGED posts
    /\ UNCHANGED <<userVars, tokens, nextPost, nextComment>>

\* ------------------------------------------------ addComment, deleteComment
Adding == Cardinality({q \in Procs : loc[q].pc = "comment_push"})

\* the middleware, then Post.findById(id) and the 404
AddFind(p, header, id, comment) ==
    /\ Free(p)
    /\ nextComment + Adding <= cap.comments
    /\ LET r == Request("addComment", header, [id |-> id, comment |-> comment])
       IN \/ TurnedAway(p, r)
          \/ /\ Middleware(r.op, header) = 0
             /\ IF id \notin DOMAIN posts THEN Respond(p, r, 404)
                ELSE loc' = [loc EXCEPT ![p] = [r EXCEPT !.pc = "comment_push"]]
             /\ UNCHANGED <<userVars, tokens, postVars>>

\* (mutant) the comment is put at the head of the stored list
AddSavePrepends(p) ==
    /\ loc[p].pc = "comment_push"
    /\ LET r == loc[p]
       IN /\ r.a.id \in DOMAIN posts
          /\ posts' = [posts EXCEPT ![r.a.id].comments =
                           <<[id |-> nextComment, user |-> r.user.id,
                              comment |-> r.a.comment]>> \o @]
          /\ nextComment' = nextComment + 1
          /\ Respond(p, [r EXCEPT !.a = r.a @@ [cid |-> nextComment]], 201)
    /\ UNCHANGED <<userVars, tokens, nextPost>>

\* post.save() after comments.push: the comment is appended to the stored list
AddSave(p) ==
    /\ loc[p].pc = "comment_push"
    /\ LET r == loc[p]
       IN IF r.a.id \in DOMAIN posts
          THEN /\ posts' = [posts EXCEPT ![r.a.id].comments =
                                Append(@, [id |-> nextComment, user |-> r.user.id,
                                           comment |-> r.a.comment])]
               /\ nextComment' = nextComment + 1
               /\ Respond(p, [r EXCEPT !.a = r.a @@ [cid |-> nextComment]], 201)
          ELSE /\ \E status \in {201, 500} : Respond(p, r, status)
               /\ UNCHANGED <<posts, nextComment>>
    /\ UNCHANGED <<userVars, tokens, nextPost>>

\* post.comments.id(commentId)
HasComment(comments, cid) == \E k \in 1..Len(comments) : comments[k].id = cid
CommentById(comments, cid) ==
    comments[CHOOSE k \in 1..Len(comments) : comments[k].id = cid]

\* (mutant) the post's author is not let through
CommentDeniedNoPostAuthor(postAuthor, commentUser, user) ==
    user.role # "admin" /\ commentUser # user.id

\* !isAdmin && !isPostAuthor && !isCommentOwner
CommentDenied(postAuthor, commentUser, user) ==
    /\ user.role # "admin"
    /\ postAuthor # user.id
    /\ commentUser # user.id

\* the middleware, then Post.findById(postId), the two 404s and the 403
PullFind(p, header, postId, commentId) ==
    /\ Free(p)
    /\ LET r == Request("deleteComment", header, [id |-> postId, cid |-> commentId])
       IN \/ TurnedAway(p, r)
          \/ /\ Middleware(r.op, header) = 0
             /\ IF postId \notin DOMAIN posts THEN Respond(p, r, 404)
                ELSE IF ~HasComment(posts[postId].comments, commentId)
                THEN Respond(p, r, 404)
                ELSE IF CommentDenied(posts[postId].author,
                                      CommentById(posts[postId].comments, commentId).user,
                                      r.user)
                THEN Respond(p, r, 403)
                ELSE loc' = [loc EXCEPT ![p] = [r EXCEPT !.pc = "comment_pull"]]
             /\ UNCHANGED <<userVars, tokens, postVars>>

\* post.save() after comment.deleteOne(): the comment is pulled from the
\* stored list by its id
PullSave(p) ==
    /\ loc[p].pc = "comment_pull"
    /\ LET r == loc[p]
       IN IF r.a.id \in DOMAIN posts
          THEN /\ posts' = [posts EXCEPT ![r.a.id].comments =
                                SelectSeq(@, LAMBDA c : c.id # r.a.cid)]
               /\ Respond(p, r, 200)
          ELSE /\ \E status \in {200, 500} : Respond(p, r, status)
               /\ UNCHANGED posts
    /\ UNCHANGED <<userVars, tokens, nextPost, nextComment>>

\* ------------------------------------------------------------------- runs
Empty ==
    /\ users = <<>>
    /\ nextId = 1
    /\ tokens = {}
    /\ posts = <<>>
    /\ nextPost = 1
    /\ nextComment = 1
    /\ loc = [p \in Procs |-> Idle]

Init ==
    /\ Empty
    /\ cap = [users |-> SeqUsers, tokens |-> SeqTokens, posts |-> SeqPosts,
              comments |-> SeqComments]

\* What the requests are drawn from: the tokens issued so far or none, the
\* ids handed out so far (those of deleted documents included), the emails
\* in use and one fresh one per registration.
Headers == tokens \cup {NoToken}
UserIds == 1..(nextId - 1)
PostIds == 1..(nextPost - 1)
CommentIds == 1..(nextComment - 1)
Emails == 1..(nextId + Registering)

\* The requests of the auth routes
AuthNext(p) ==
    \/ \E email \in Emails : RegisterFind(p, email)
    \/ RegisterCount(p)
    \/ RegisterCreate(p)
    \/ \E email \in Emails, ok \in BOOLEAN : LoginUser(p, email, ok)
    \/ \E h \in Headers, id \in UserIds, role \in RoleInputs : RoleFindTarget(p, h, id, role)
    \/ RoleCheckActor(p)
    \/ RoleCountLast(p)
    \/ RoleCountCeiling(p)
    \/ RoleSave(p)
    \/ \E h \in Headers, id \in UserIds : DeleteUser(p, h, id)
    \/ \E h \in Headers, op \in {"getAllUsers", "getUserStats"} : AdminRead(p, h, op)
    \/ Return(p)

\* The requests of the post routes
PostNext(p) ==
    \/ \E h \in Headers, t \in Texts : CreatePost(p, h, t, t)
    \/ \E h \in Headers, id \in PostIds, t, c \in TextInputs : UpdateFind(p, h, id, t, c)
    \/ UpdateSave(p)
    \/ \E h \in Headers, id \in PostIds : DeleteFind(p, h, id)
    \/ DeleteDo(p)
    \/ \E h \in Headers, id \in PostIds : AddFind(p, h, id, "a")
    \/ AddSave(p)
    \/ \E h \in Headers, id \in PostIds, c \in CommentIds : PullFind(p, h, id, c)
    \/ PullSave(p)

\* The whole program, one request at a time: the next request starts when
\* the last was answered.
Next == AuthNext(1) \/ PostNext(1)

Spec == Init /\ [][Next]_vars

\* The auth routes with two requests in flight, their store calls interleaved.
\* (No handler of the post routes writes users or tokens.)
AuthInit ==
    /\ Empty
    /\ cap = [users |-> MaxUsers, tokens |-> MaxTokens, posts |-> 0, comments |-> 0]

AuthSpec == AuthInit /\ [][\E p \in Procs : AuthNext(p)]_vars

\* Updates of roles with two requests in flight, from the stores that
\* registrations and promotions by the first user lead to: two admins, or
\* MaxAdmins - 1 admins and two readers; the first two admins logged in.
RoleInit ==
    /\ \E n \in {2, MaxAdmins + 1} :
          /\ users = [i \in 1..n |->
                        [role |-> IF i < MaxAdmins THEN "admin" ELSE "reader", email |-> i]]
          /\ nextId = n + 1
    /\ tokens = {generateToken(1, "admin"), generateToken(2, "admin")}
    /\ posts = <<>>
    /\ nextPost = 1
    /\ nextComment = 1
    /\ loc = [p \in Procs |-> Idle]
    /\ cap = [users |-> 0, tokens |-> 0, posts |-> 0, comments |-> 0]

RoleNext(p) ==
    \/ \E h \in tokens, id \in {1, 2, MaxAdmins, MaxAdmins + 1} \cap UserIds,
          role \in {"admin", "reader"} : RoleFindTarget(p, h, id, role)
    \/ RoleCheckActor(p)
    \/ RoleCountLast(p)
    \/ RoleCountCeiling(p)
    \/ RoleSave(p)
    \/ Return(p)

RoleSpec == RoleInit /\ [][\E p \in Procs : RoleNext(p)]_vars

\* Registrations, logins, role updates, and the creation and deletion of
\* posts, one request at a time, from the empty stores.
StoryInit ==
    /\ Empty
    /\ cap = [users |-> StoryUsers, tokens |-> StoryTokens, posts |-> StoryPosts,
              comments |-> 0]

StoryNext(p) ==
    \/ \E email \in Emails : RegisterFind(p, email)
    \/ RegisterCount(p)
    \/ RegisterCreate(p)
    \/ \E email \in Emails, ok \in BOOLEAN : LoginUser(p, email, ok)
    \/ \E h \in Headers, id \in UserIds, role \in RoleInputs : RoleFindTarget(p, h, id, role)
    \/ RoleCheckActor(p)
    \/ RoleCountLast(p)
    \/ RoleCountCeiling(p)
    \/ RoleSave(p)
    \/ \E h \in Headers, t \in Texts : CreatePost(p, h, t, t)
    \/ \E h \in Headers, id \in PostIds : DeleteFind(p, h, id)
    \/ DeleteDo(p)
    \/ Return(p)

StorySpec == StoryInit /\ [][StoryNext(1)]_vars

\* Updates of roles and deletions of users, one request at a time, from the
\* stores of RoleInit.
GuardNext(p) ==
    \/ \E h \in tokens, id \in {1, 2, MaxAdmins, MaxAdmins + 1} \cap UserIds,
          role \in RoleInputs : RoleFindTarget(p, h, id, role)
    \/ RoleCheckActor(p)
    \/ RoleCountLast(p)
    \/ RoleCountCeiling(p)
    \/ RoleSave(p)
    \/ \E h \in tokens, id \in {1, 2, MaxAdmins, MaxAdmins + 1} \cap UserIds :
          DeleteUser(p, h, id)
    \/ Return(p)

GuardSpec == RoleInit /\ [][GuardNext(1)]_vars

\* Comments on one post with two requests in flight, from the stores that
\* two registrations, two logins and a createPost of the first user lead to.
CommentInit ==
    /\ users = (1 :> [role |-> "admin", email |-> 1]) @@ (2 :> [role |-> "reader", email |-> 2])
    /\ nextId = 3
    /\ tokens = {generateToken(1, "admin"), generateToken(2, "reader")}
    /\ posts = (1 :> [author |-> 1, title |-> "a", content |-> "a", comments |-> <<>>])
    /\ nextPost = 2
    /\ nextComment = 1
    /\ loc = [p \in Procs |-> Idle]
    /\ cap = [users |-> 0, tokens |-> 0, posts |-> 0, comments |-> MaxComments]

CommentNext(p) ==
    \/ \E h \in Headers, id \in PostIds : AddFind(p, h, id, "a")
    \/ AddSave(p)
    \/ \E h \in Headers, id \in PostIds, c \in CommentIds : PullFind(p, h, id, c)
    \/ PullSave(p)
    \/ \E h \in Headers, id \in PostIds : DeleteFind(p, h, id)
    \/ DeleteDo(p)
    \/ Return(p)

CommentSpec == CommentInit /\ [][\E p \in Procs : CommentNext(p)]_vars

\* Updates of roles and deletions of users from the stores of RoleInit, in
\* runs with one request at a time (cap.flight = 1: the second process
\* serves nothing) and in runs with two requests in flight.
TurnInit ==
    /\ \E n \in {2, MaxAdmins + 1} :
          /\ users = [i \in 1..n |->
                        [role |-> IF i < MaxAdmins THEN "admin" ELSE "reader", email |-> i]]
          /\ nextId = n + 1
    /\ tokens = {generateToken(1, "admin"), generateToken(2, "admin")}
    /\ posts = <<>>
    /\ nextPost = 1
    /\ nextComment = 1
    /\ loc = [p \in Procs |-> Idle]
    /\ \E flight \in 1..MaxInFlight :
          cap = [users |-> 0, tokens |-> 0, posts |-> 0, comments |-> 0, flight |-> flight]

TurnNext(p) ==
    /\ p <= cap.flight
    /\ \/ \E h \in tokens, id \in {1, 2, MaxAdmins, MaxAdmins + 1} \cap UserIds,
             role \in {"admin", "reader"} : RoleFindTarget(p, h, id, role)
       \/ RoleCheckActor(p)
       \/ RoleCountLast(p)
       \/ RoleCountCeiling(p)
       \/ RoleSave(p)
       \/ \E h \in tokens, id \in {1, 2, MaxAdmins, MaxAdmins + 1} \cap UserIds :
             DeleteUser(p, h, id)
       \/ Return(p)

TurnSpec == TurnInit /\ [][\E p \in Procs : TurnNext(p)]_vars

\* ================================================================= claims
\* Process p answers its request in this step.
Answered(p) == loc[p].pc # "done" /\ loc'[p].pc = "done"
Done(p) == loc[p].pc = "done"
Authenticated(r) == r.header # NoToken

\* C1: once the first registration has completed, the user store always
\* holds at least one admin.
C1_AlwaysAnAdmin == nextId > 1 => AdminCount >= 1

\* C2: no updateUserRole request reduces the number of admins to 0.
C2_NoRoleUpdateRemovesLastAdmin ==
    [][\A p \in Procs :
         (loc[p].pc = "role_save" /\ Answered(p)) => ~(AdminCount > 0 /\ AdminCount' = 0)]_vars

\* C3: the number of admins never exceeds 5.
C3_AtMostMaxAdmins == AdminCount <= MaxAdmins

SelfTargeted(r) == r.op = "updateUserRole" /\ Authenticated(r) /\ r.a.id = r.header.id

\* C4 as stated: an updateUserRole request whose target is the requesting
\* actor is answered 403 and changes no role (looked at while the first
\* user registered is still an admin).
C4_SelfUpdateForbidden ==
    [][\A p \in Procs :
         (Answered(p) /\ SelfTargeted(loc'[p]) /\ StillAdmin(1)) =>
             (loc'[p].status = 403 /\ users' = users)]_vars

\* C4 as amended: such a request changes no role and is answered 403, or
\* 404 when the actor's user is no longer stored and the token says admin.
C4_SelfUpdateRejected ==
    [][\A p \in Procs :
         (Answered(p) /\ SelfTargeted(loc'[p])) =>
             /\ users' = users
             /\ loc'[p].status =
                  IF loc'[p].header.id \notin DOMAIN users /\ loc'[p].header.role = "admin"
                  THEN 404 ELSE 403]_vars

\* C4: the only admin of the store asked for its own demotion and got 403.
C4_Witness ==
    \E p \in Procs :
        /\ Done(p) /\ SelfTargeted(loc[p]) /\ loc[p].status = 403
        /\ loc[p].a.role = "reader"
        /\ loc[p].header.id \in DOMAIN users /\ users[loc[p].header.id].role = "admin"
        /\ AdminCount = 1 /\ UserCount > 1

Registered(p) == Answered(p) /\ loc'[p].op = "register" /\ loc'[p].status = 201

\* C5: the first user ever registered is created an admin, every later one
\* a reader.
C5_FirstEverIsAdmin ==
    [][\A p \in Procs :
         Registered(p) =>
             users'[loc'[p].a.id].role = IF nextId = 1 THEN "admin" ELSE "reader"]_vars

\* What the token alone decides: the roles the route lets through, and for
\* a post or a comment the ownership against the token's id.
TokenForbids(r) ==
    LET role == r.header.role
        id == r.header.id
    IN CASE r.op \in {"getAllUsers", "getUserStats", "deleteUser"} -> role # "admin"
         [] r.op = "createPost" -> role \notin {"admin", "author"}
         [] r.op \in {"updatePost", "deletePost"} ->
               \/ role \notin {"admin", "author"}
               \/ /\ r.a.id \in DOMAIN posts
                  /\ posts[r.a.id].author # id /\ role # "admin"
         [] r.op = "deleteComment" ->
               /\ r.a.id \in DOMAIN posts
               /\ HasComment(posts[r.a.id].comments, r.a.cid)
               /\ role # "admin" /\ posts[r.a.id].author # id
               /\ CommentById(posts[r.a.id].comments, r.a.cid).user # id

TokenRoutes == {"getAllUsers", "getUserStats", "deleteUser", "createPost",
                "updatePost", "deletePost", "deleteComment"}

\* C6: on every route but updateUserRole the request is forbidden exactly
\* when the token's role (and id) forbid it, whatever role the store holds.
C6_TokenRoleDecides ==
    [][\A p \in Procs :
         (Answered(p) /\ loc'[p].op \in TokenRoutes /\ Authenticated(loc'[p])) =>
             ((loc'[p].status = 403) <=> TokenForbids(loc'[p]))]_vars

\* C6: a user demoted to reader deleted a user with the admin token of before.
C6_Witness ==
    \E p \in Procs :
        /\ Done(p) /\ loc[p].op = "deleteUser" /\ loc[p].status = 200
        /\ loc[p].header.role = "admin"
        /\ loc[p].header.id \in DOMAIN users
        /\ users[loc[p].header.id].role = "reader"

\* The token says admin; the store holds the actor with another role or not at all.
StaleAdmin(r) ==
    /\ r.op = "updateUserRole" /\ r.header.role = "admin"
    /\ (r.header.id \in DOMAIN users => users[r.header.id].role # "admin")

\* C7 as stated: an updateUserRole request of an actor the store no longer
\* holds as an admin is answered 403 and changes no role (looked at for a
\* target other than the actor, while the first user registered is still an
\* admin).
C7_StaleAdminForbidden ==
    [][\A p \in Procs :
         (Answered(p) /\ StaleAdmin(loc'[p]) /\ ~SelfTargeted(loc'[p]) /\ StillAdmin(1)) =>
             (loc'[p].status = 403 /\ users' = users)]_vars

\* C7 as amended: such a request changes no role and is answered 403, or 404
\* when the target user does not exist.
C7_StaleAdminRejected ==
    [][\A p \in Procs :
         (Answered(p) /\ StaleAdmin(loc'[p])) =>
             /\ users' = users
             /\ loc'[p].status = IF loc'[p].a.id \in DOMAIN users THEN 403 ELSE 404]_vars

\* C7: a demoted admin asked for a valid role change of another stored user
\* with the admin token of before and got 403.
C7_Witness ==
    \E p \in Procs :
        /\ Done(p) /\ StaleAdmin(loc[p]) /\ loc[p].status = 403
        /\ loc[p].header.id \in DOMAIN users
        /\ loc[p].a.id \in DOMAIN users /\ loc[p].a.id # loc[p].header.id
        /\ loc[p].a.role \in Roles

\* The comment of the post that a deleteComment request names, when both exist.
NamesComment(r) ==
    /\ r.op = "deleteComment" /\ Authenticated(r)
    /\ r.a.id \in DOMAIN posts
    /\ HasComment(posts[r.a.id].comments, r.a.cid)

MayDeleteComment(r) ==
    \/ r.header.role = "admin"
    \/ posts[r.a.id].author = r.header.id
    \/ CommentById(posts[r.a.id].comments, r.a.cid).user = r.header.id

\* C8: deleteComment on an existing comment of an existing post answers 200
\* and removes the comment exactly when the token's role is admin or the
\* actor is the post's author or the comment's author; otherwise it answers
\* 403 and the comment list is unchanged.
C8_DeleteCommentPolicy ==
    [][\A p \in Procs :
         (Answered(p) /\ NamesComment(loc'[p])) =>
             IF MayDeleteComment(loc'[p])
             THEN /\ loc'[p].status = 200
                  /\ posts'[loc'[p].a.id].comments =
                        SelectSeq(posts[loc'[p].a.id].comments,
                                  LAMBDA c : c.id # loc'[p].a.cid)
                  /\ Len(posts'[loc'[p].a.id].comments) =
                        Len(posts[loc'[p].a.id].comments) - 1
             ELSE /\ loc'[p].status = 403
                  /\ posts' = posts]_vars

\* C8: a user who is neither an admin nor the author of the post or of the
\* comment asked to delete the comment and got 403.
C8_Witness ==
    \E p \in Procs :
        /\ Done(p) /\ NamesComment(loc[p]) /\ loc[p].status = 403
        /\ ~MayDeleteComment(loc[p])

NamesPost(r) ==
    /\ r.op \in {"updatePost", "deletePost"} /\ Authenticated(r)
    /\ r.a.id \in DOMAIN posts

\* C9: on an existing post, updatePost and deletePost answer 403 and leave
\* the post as it is for an actor who is neither its author nor an admin;
\* they succeed for its author with role author and for any admin.
C9_PostPolicy ==
    [][\A p \in Procs :
         (Answered(p) /\ NamesPost(loc'[p])) =>
             LET r == loc'[p]
                 post == posts[r.a.id]
             IN IF post.author # r.header.id /\ r.header.role # "admin"
                THEN r.status = 403 /\ posts' = posts
                ELSE IF r.header.role = "admin"
                        \/ (post.author = r.header.id /\ r.header.role = "author")
                THEN /\ r.status = 200
                     /\ IF r.op = "deletePost"
                        THEN r.a.id \notin DOMAIN posts'
                        ELSE posts' = [posts EXCEPT
                                 ![r.a.id].title = OrElse(r.a.title, post.title),
                                 ![r.a.id].content = OrElse(r.a.content, post.content)]
                ELSE TRUE]_vars

\* C9: a user with role author asked to delete another user's post: 403,
\* and the post is still there.
C9_Witness ==
    \E p \in Procs :
        /\ Done(p) /\ NamesPost(loc[p]) /\ loc[p].op = "deletePost"
        /\ loc[p].status = 403 /\ loc[p].header.role = "author"
        /\ posts[loc[p].a.id].author # loc[p].header.id

\* C10: every post is created with an author that the user store holds at
\* that moment (looked at while the first user registered is still an admin).
C10_AuthorExistsAtCreation ==
    [][\A p \in Procs :
         (Answered(p) /\ loc'[p].op = "createPost" /\ loc'[p].status = 201
            /\ StillAdmin(1)) =>
             posts'[loc'[p].a.id].author \in DOMAIN users]_vars

\* ---- C11
PromotesReaderToAuthor(r) ==
    /\ r.op = "updateUserRole" /\ r.header.role = "admin" /\ r.a.role = "author"
    /\ r.header.id \in DOMAIN users /\ users[r.header.id].role = "admin"
    /\ r.a.id \in DOMAIN users /\ users[r.a.id].role = "reader"

\* A token of role `role` whose user the store holds with that role.
FreshToken(r, role) ==
    /\ r.header.role = role
    /\ r.header.id \in DOMAIN users /\ users[r.header.id].role = role

\* C11: the steps of the scenario have the stated outcomes: a registration
\* on an empty store creates an admin and one on a store with users a
\* reader; an admin's update of a reader to author succeeds; a user with a
\* token issued after the promotion to author creates a post; a reader's
\* delete of an author's post is answered 403 and the post stays; the
\* author's delete of the own post is answered 200 and the post is gone.
C11_Scenario ==
    [][\A p \in Procs :
         Answered(p) =>
            LET r == loc'[p]
            IN /\ (r.op = "register" /\ ~EmailTaken(r.a.email)) =>
                     /\ r.status = 201
                     /\ DOMAIN users' = DOMAIN users \cup {r.a.id}
                     /\ users'[r.a.id].role = IF UserCount = 0 THEN "admin" ELSE "reader"
               /\ PromotesReaderToAuthor(r) =>
                     /\ r.status = 200
                     /\ users' = [users EXCEPT ![r.a.id].role = "author"]
               /\ (r.op = "createPost" /\ FreshToken(r, "author")) =>
                     /\ r.status = 201
                     /\ r.a.id \in DOMAIN posts' \ DOMAIN posts
                     /\ posts'[r.a.id].author = r.header.id
               /\ (r.op = "deletePost" /\ FreshToken(r, "reader")
                     /\ r.a.id \in DOMAIN posts /\ posts[r.a.id].author # r.header.id) =>
                     /\ r.status = 403
                     /\ posts' = posts
               /\ (r.op = "deletePost" /\ FreshToken(r, "author")
                     /\ r.a.id \in DOMAIN posts /\ posts[r.a.id].author = r.header.id) =>
                     /\ r.status = 200
                     /\ r.a.id \notin DOMAIN posts']_vars

\* C11: the end of the scenario: A is the admin, B the author with a token
\* of role author, C a logged-in reader, and B's delete of the own post,
\* the one post ever created, was answered 200.
C11_Witness ==
    \E p \in Procs :
        /\ Done(p) /\ loc[p].op = "deletePost" /\ loc[p].status = 200
        /\ loc[p].header = [id |-> 2, role |-> "author"]
        /\ DOMAIN users = {1, 2, 3}
        /\ users[1].role = "admin" /\ users[2].role = "author" /\ users[3].role = "reader"
        /\ {[id |-> 1, role |-> "admin"], [id |-> 3, role |-> "reader"]} \subseteq tokens
        /\ nextPost = 2 /\ posts = <<>>

\* ---- C12
GuardedOps == {"updateUserRole", "updatePost", "deletePost", "addComment",
               "deleteComment", "register"}
Denials == {400, 401, 403, 404}

\* C12: a step of a request to updateUserRole, updatePost, deletePost,
\* addComment, deleteComment or register changes the user store or the
\* content store only when it answers the request, and then not with 400,
\* 401, 403 or 404: a request answered with one of these has written nothing.
C12_DenialsWriteNothing ==
    [][\A p \in Procs :
         (loc'[p] # loc[p] /\ loc'[p].pc # "idle" /\ loc'[p].op \in GuardedOps) =>
            \/ users' = users /\ posts' = posts
            \/ loc'[p].pc = "done" /\ loc'[p].status \notin Denials]_vars

\* C12: an update that asked for another title was answered 403, and the
\* post has the title it had.
C12_Witness ==
    \E p \in Procs :
        /\ Done(p) /\ loc[p].op = "updatePost" /\ loc[p].status = 403
        /\ loc[p].a.id \in DOMAIN posts
        /\ loc[p].a.title \in Texts /\ posts[loc[p].a.id].title # loc[p].a.title

\* ---- C13
RolesInEnum == \A i \in DOMAIN users : users[i].role \in {"admin", "author", "reader"}

AsksInvalidRole(r) ==
    r.op = "updateUserRole" /\ r.a.role \notin {"admin", "author", "reader"}

StoredAdmin(id) == id \in DOMAIN users /\ users[id].role = "admin"

\* C13 as stated: every stored role is admin, author or reader, and a role
\* update that asks for another value is answered 400 and changes nothing
\* (looked at for an actor the store holds as an admin, with an admin's
\* token, and a target the store holds).
C13_InvalidRoleIs400 ==
    /\ []RolesInEnum
    /\ [][\A p \in Procs :
           (Answered(p) /\ AsksInvalidRole(loc'[p]) /\ loc'[p].header.role = "admin"
              /\ StoredAdmin(loc'[p].header.id) /\ loc'[p].a.id \in DOMAIN users) =>
               (loc'[p].status = 400 /\ users' = users)]_vars

\* C13 as amended: every stored role is admin, author or reader, and a role
\* update that asks for another value changes nothing and is answered with
\* the status of the first check that fails: 401 without a token, 403 for a
\* token that is not an admin's, 404 for a target that does not exist, 403
\* for an actor no longer stored as an admin, 403 for the actor's own id,
\* and 400 otherwise.
C13_InvalidRoleRejected ==
    /\ []RolesInEnum
    /\ [][\A p \in Procs :
           (Answered(p) /\ AsksInvalidRole(loc'[p])) =>
               LET r == loc'[p]
               IN /\ users' = users
                  /\ r.status =
                        IF ~Authenticated(r) THEN 401
                        ELSE IF r.header.role # "admin" THEN 403
                        ELSE IF r.a.id \notin DOMAIN users THEN 404
                        ELSE IF ~StoredAdmin(r.header.id) THEN 403
                        ELSE IF r.a.id = r.header.id THEN 403
                        ELSE 400]_vars

\* C13: an admin asked for the role "editor" for another stored user and
\* got 400; the user has the role it had.
C13_Witness ==
    \E p \in Procs :
        /\ Done(p) /\ AsksInvalidRole(loc[p]) /\ loc[p].status = 400
        /\ StoredAdmin(loc[p].header.id)
        /\ loc[p].a.id \in DOMAIN users /\ loc[p].a.id # loc[p].header.id
        /\ RolesInEnum

\* ---- C14
\* C14: a post is created with the id of the creating actor as its author,
\* and no step changes the author of a post that exists before and after it.
C14_AuthorImmutable ==
    [][/\ \A i \in DOMAIN posts \cap DOMAIN posts' : posts'[i].author = posts[i].author
       /\ \A p \in Procs :
            (Answered(p) /\ loc'[p].op = "createPost" /\ loc'[p].status = 201) =>
                /\ loc'[p].a.id \in DOMAIN posts' \ DOMAIN posts
                /\ posts'[loc'[p].a.id].author = loc'[p].header.id]_vars

\* C14: an admin who is not the post's author changed the title of a post
\* that has a comment: the update was answered 200 and took effect.
C14_Witness ==
    \E p \in Procs :
        /\ Done(p) /\ loc[p].op = "updatePost" /\ loc[p].status = 200
        /\ loc[p].a.id \in DOMAIN posts
        /\ posts[loc[p].a.id].author # loc[p].header.id
        /\ posts[loc[p].a.id].title = loc[p].a.title
        /\ posts[loc[p].a.id].title # posts[loc[p].a.id].content
        /\ Len(posts[loc[p].a.id].comments) > 0

\* ---- C15
\* C15: a registration chooses admin exactly when it counts no user, and
\* creates its user (of an email still free) with the role it chose,
\* whatever the store holds by then: two registrations that both counted an empty store both create an
\* admin.
C15_RoleFromObservedCount ==
    [][\A p \in Procs :
         /\ (loc[p].pc = "reg_count" /\ loc'[p].pc = "reg_create") =>
                loc'[p].role = IF UserCount = 0 THEN "admin" ELSE "reader"
         /\ (loc[p].pc = "reg_create" /\ Answered(p) /\ ~EmailTaken(loc[p].a.email)) =>
                /\ loc'[p].status = 201
                /\ DOMAIN users' = DOMAIN users \cup {loc'[p].a.id}
                /\ users'[loc'[p].a.id].role = loc[p].role]_vars

\* C15: two registrations in flight at once were both answered 201 with
\* role admin, and the store holds the two users as admins.
C15_Witness ==
    /\ \A p \in Procs :
          /\ Done(p) /\ loc[p].op = "register" /\ loc[p].status = 201
          /\ loc[p].a.role = "admin"
          /\ loc[p].a.id \in DOMAIN users /\ users[loc[p].a.id].role = "admin"
    /\ loc[1].a.id # loc[2].a.id
    /\ AdminCount = 2

\* ---- C16
\* The status and the message of a response.
Reported(r) == <<r.status, IF "message" \in DOMAIN r.a THEN r.a.message ELSE "">>

\* The first of the guards 1 to 5 that fails for a request on the stored
\* users, or the 200 of an update when none fails.
FirstFailing(r) ==
    IF ~StoredAdmin(r.header.id) THEN <<403, NoLongerAdmin>>
    ELSE IF r.a.id = r.header.id THEN <<403, OwnRole>>
    ELSE IF r.a.role \notin {"admin", "author", "reader"} THEN <<400, InvalidRole>>
    ELSE IF users[r.a.id].role = "admin" /\ r.a.role # "admin" /\ AdminCount <= 1
    THEN <<403, LastAdmin>>
    ELSE IF r.a.role = "admin" /\ users[r.a.id].role # "admin" /\ AdminCount >= 5
    THEN <<403, CeilingReached>>
    ELSE <<200, "">>

\* C16 as stated: a role update with an admin's token reports the first of
\* the guards 1 to 5 that fails, and nothing comes before guard 1: an actor
\* who is no longer an admin is told so whether the target exists or not
\* (looked at while the store holds an admin).
C16_GuardOneFirst ==
    [][\A p \in Procs :
         (Answered(p) /\ loc'[p].op = "updateUserRole" /\ loc'[p].header.role = "admin"
            /\ AdminCount >= 1
            /\ (~StoredAdmin(loc'[p].header.id) \/ loc'[p].a.id \in DOMAIN users)) =>
             Reported(loc'[p]) = FirstFailing(loc'[p])]_vars

\* C16 as amended: a role update with an admin's token is answered 404 when
\* the target does not exist, and otherwise reports the first of the guards
\* 1 to 5 that fails.
C16_GuardsAfterLookup ==
    [][\A p \in Procs :
         (Answered(p) /\ loc'[p].op = "updateUserRole" /\ loc'[p].header.role = "admin") =>
             Reported(loc'[p]) = IF loc'[p].a.id \notin DOMAIN users THEN <<404, "">>
                                 ELSE FirstFailing(loc'[p])]_vars

\* C16: an actor who is no longer an admin asked for an invalid role for
\* their own id: guards 1, 2 and 3 all fail, and the answer is that of
\* guard 1.
C16_Witness ==
    \E p \in Procs :
        /\ Done(p) /\ loc[p].op = "updateUserRole" /\ loc[p].header.role = "admin"
        /\ loc[p].header.id \in DOMAIN users /\ users[loc[p].header.id].role # "admin"
        /\ loc[p].a.id = loc[p].header.id
        /\ loc[p].a.role = "editor"
        /\ Reported(loc[p]) = <<403, NoLongerAdmin>>

\* ---- C17
CommentIdsOf(comments) == {comments[k].id : k \in 1..Len(comments)}

LastAdminRefusal(p) ==
    /\ Answered(p) /\ loc'[p].op = "updateUserRole"
    /\ Reported(loc'[p]) = <<403, LastAdmin>>

\* Guards 1 to 3 pass, and the target was loaded as an admin to be demoted.
PassesToCount(p) == loc[p].pc = "role_actor" /\ loc'[p].pc = "role_last"

\* C18 as stated: with one request at a time no role update is answered
\* with the last-admin refusal; and whenever guards 1 to 3 pass for the
\* demotion of an admin the store holds two admins at least, so that the
\* refusal needs a change of the store between the re-verification of the
\* actor and the count of the admins.
C18_RefusalNeedsChangeAfterVerification ==
    [][\A p \in Procs :
         /\ cap.flight = 1 => ~LastAdminRefusal(p)
         /\ PassesToCount(p) => AdminCount >= 2]_vars

\* C18 as amended: with one request at a time no role update is answered
\* with the last-admin refusal, and the store holds two admins at least
\* whenever guards 1 to 3 pass for the demotion of an admin; in any run, when
\* the refusal is given the store no longer holds both the actor and the
\* target as admins, as the request read them: it changed between the
\* lookup of the target and the count of the admins.
C18_RefusalNeedsChangeAfterLookup ==
    [][\A p \in Procs :
         /\ cap.flight = 1 =>
               /\ ~LastAdminRefusal(p)
               /\ PassesToCount(p) => AdminCount >= 2
         /\ LastAdminRefusal(p) =>
               /\ loc[p].doc.role = "admin"
               /\ loc'[p].a.id # loc'[p].header.id
               /\ ~(StoredAdmin(loc'[p].header.id) /\ StoredAdmin(loc'[p].a.id))]_vars

\* C18: with two requests in flight a demotion was answered with the
\* last-admin refusal: the actor is the admin left, the target was demoted
\* by another request after this one had loaded it.
C18_Witness ==
    \E p \in Procs :
        /\ Done(p) /\ loc[p].op = "updateUserRole"
        /\ Reported(loc[p]) = <<403, LastAdmin>>
        /\ cap.flight = 2
        /\ StoredAdmin(loc[p].header.id) /\ AdminCount = 1
        /\ loc[p].a.id \in DOMAIN users /\ users[loc[p].a.id].role = "reader"

\* ---- C19
EmailsUnique ==
    \A i, j \in DOMAIN users : users[i].email = users[j].email => i = j

\* C19: no two stored users share an email, and a registration answered
\* while a stored user has its email is answered 400 and creates no user.
C19_TakenEmailIs400 ==
    /\ []EmailsUnique
    /\ [][\A p \in Procs :
           (Answered(p) /\ loc'[p].op = "register" /\ EmailTaken(loc'[p].a.email)) =>
               (loc'[p].status = 400 /\ users' = users)]_vars

====
